---------------------------- MODULE Spec2Model ----------------------------
(***************************************************************************)
(* A model of fava's price index (src/fava/beans/prices.py, FavaPriceMap) *)
(* and of the way the application loads and publishes ledgers              *)
(* (src/fava/application.py).                                              *)
(*                                                                         *)
(* Currency codes are the naturals 1..NumCurrencies, ordered as the codes  *)
(* sort.  Dates are the naturals 1..MaxDate.  A Decimal is the fraction    *)
(* <<n, d>> in lowest terms (d > 0); the rates of Rates have inverses that *)
(* Decimal represents exactly.  Python's None is NoneDate for a date,      *)
(* NoneRate for a rate and NoneList for a list.                            *)
(***************************************************************************)
EXTENDS Integers, Sequences, FiniteSets, TLC

VARIABLES
    pc,              \* "loop": in FavaPriceMap.__init__; "built": constructed;
                     \* "called": a query has returned to its caller
    price_entries,   \* the price entries iterated so far, in input order
    raw_map,         \* __init__'s local raw_map: pair -> list of points
    counts,          \* __init__'s local Counter, as its items() in insertion order
    _currencies,     \* self._currencies
    iter_order,      \* the currencies the last query's loop over self._currencies
                     \* could try (those not in base_quote), in iteration order
    _forward_pairs,  \* self._forward_pairs
    _map,            \* self._map
    call,            \* the last query made: operation and arguments
    ret,             \* what that query returned
    \* the application (application.py)
    LEDGERS,         \* app.config["LEDGERS"]: 0 (not set) or a dict object
    LOAD_FILE_LOCK,  \* 0 (free) or the request context that holds it
    dict_objs,       \* the dict objects made by update_ledger_slugs
    ledger_objs,     \* the FavaLedger objects
    map_objs,        \* the FavaPriceMap objects of the ledgers
    files,           \* the version of each Beancount file on disk
    request,         \* each request context: its position and locals
    loads            \* how many times _load_file was called

price_map == <<pc, price_entries, raw_map, counts, _currencies, iter_order,
               _forward_pairs, _map, call, ret>>

app == <<LEDGERS, LOAD_FILE_LOCK, dict_objs, ledger_objs, map_objs, files,
         request, loads>>

vars == <<price_map, app>>

index == <<_currencies, iter_order, _forward_pairs, _map>>
locals == <<price_entries, raw_map, counts>>

-----------------------------------------------------------------------------
(* Bounds of the model *)

NumCurrencies == 3
MaxDate == 3
\* the longest input under Spec (all queries) and under SpecListing
\* (construction and commodity_pairs only)
MaxEntries == 2
MaxListingEntries == 3
\* SpecPivot: the currencies and the longest input
NumPivotCurrencies == 4
MaxPivotEntries == 4
\* the application: request contexts, Beancount files, edits of a file
NumRequests == 2
NumFiles == 2
MaxVersion == 1
\* stands for the interpreter's recursion limit
RecursionLimit == 3

Currencies == 1..NumCurrencies
Dates == 1..MaxDate

-----------------------------------------------------------------------------
(* Values *)

NoneDate == -1
NoneRate == <<0, 0>>
NoneList == << <<NoneDate, NoneRate>> >>

RECURSIVE Gcd(_, _)
Gcd(a, b) == IF b = 0 THEN a ELSE Gcd(b, a % b)

Dec(n, d) == LET g == Gcd(n, d) IN <<n \div g, d \div g>>

ZERO == <<0, 1>>
ONE == <<1, 1>>

DecDiv(a, b) == Dec(a[1] * b[2], a[2] * b[1])
DecMul(a, b) == Dec(a[1] * b[1], a[2] * b[2])

Rates == {ZERO, Dec(2, 1)}

\* The price entries a loader can supply: (date, currency, amount).
Prices == [date : Dates, currency : Currencies,
           amount : [number : Rates, currency : Currencies]]

Pairs == Currencies \X Currencies

-----------------------------------------------------------------------------
(* dict and Counter helpers *)

DictGet(d, k) == IF k \in DOMAIN d THEN d[k] ELSE NoneList

\* defaultdict(list)[k].append(v)
DefaultAppend(d, k, v) ==
    IF k \in DOMAIN d
    THEN [d EXCEPT ![k] = Append(@, v)]
    ELSE [x \in DOMAIN d \cup {k} |-> IF x = k THEN <<v>> ELSE d[x]]

CounterKeys(c) == {c[i][1] : i \in 1..Len(c)}

CounterGet(c, k, default) ==
    IF k \in CounterKeys(c)
    THEN c[CHOOSE i \in 1..Len(c) : c[i][1] = k][2]
    ELSE default

\* counts[k] += 1: a new key goes to the end of the insertion order
CounterIncr(c, k) ==
    IF k \in CounterKeys(c)
    THEN [i \in 1..Len(c) |-> IF c[i][1] = k THEN <<k, c[i][2] + 1>> ELSE c[i]]
    ELSE Append(c, <<k, 1>>)

-----------------------------------------------------------------------------
(* _keep_last_per_day *)

RECURSIVE KeepLastLoop(_, _, _, _)
KeepLastLoop(prices, i, last, out) ==
    IF i > Len(prices)
    THEN Append(out, last)
    ELSE KeepLastLoop(prices, i + 1, prices[i],
                      IF prices[i][1] > last[1] THEN Append(out, last) ELSE out)

\* keeping the first price of each day instead
RECURSIVE KeepFirstLoop(_, _, _, _)
KeepFirstLoop(prices, i, last, out) ==
    IF i > Len(prices)
    THEN Append(out, last)
    ELSE IF prices[i][1] > last[1]
         THEN KeepFirstLoop(prices, i + 1, prices[i], Append(out, last))
         ELSE KeepFirstLoop(prices, i + 1, last, out)

keep_first_per_day(prices) == KeepFirstLoop(prices, 2, prices[1], <<>>)

_keep_last_per_day(prices) == KeepLastLoop(prices, 2, prices[1], <<>>)

-----------------------------------------------------------------------------
(* FavaPriceMap.__init__ *)

\* a direction also kept when its reverse was observed as often
ForwardPairsOrEqual(c) ==
    LET keep(i) == CounterGet(c, <<c[i][1][2], c[i][1][1]>>, 0) <= c[i][2]
        F[i \in 0..Len(c)] ==
            IF i = 0 THEN <<>>
            ELSE IF keep(i) THEN Append(F[i - 1], c[i][1]) ELSE F[i - 1]
    IN F[Len(c)]

ForwardPairsOf(c) ==
    LET keep(i) == CounterGet(c, <<c[i][1][2], c[i][1][1]>>, 0) < c[i][2]
        F[i \in 0..Len(c)] ==
            IF i = 0 THEN <<>>
            ELSE IF keep(i) THEN Append(F[i - 1], c[i][1]) ELSE F[i - 1]
    IN F[Len(c)]

MapOf(raw) == [k \in DOMAIN raw |-> _keep_last_per_day(raw[k])]

\* the inverse appended without the test for a zero rate
RawMapAfterNoZeroTest(raw, price) ==
    LET rate == price.amount.number
        base_quote == <<price.currency, price.amount.currency>>
        raw1 == DefaultAppend(raw, base_quote, <<price.date, rate>>)
    IN DefaultAppend(raw1, <<price.amount.currency, price.currency>>,
                     <<price.date, IF rate = ZERO THEN ZERO
                                   ELSE DecDiv(ONE, rate)>>)

RawMapAfter(raw, price) ==
    LET rate == price.amount.number
        base_quote == <<price.currency, price.amount.currency>>
        raw1 == DefaultAppend(raw, base_quote, <<price.date, rate>>)
    IN IF rate # ZERO
       THEN DefaultAppend(raw1, <<price.amount.currency, price.currency>>,
                          <<price.date, DecDiv(ONE, rate)>>)
       ELSE raw1

LastDate == IF price_entries = <<>> THEN 1
            ELSE price_entries[Len(price_entries)].date

-----------------------------------------------------------------------------
(* bisect.bisect over DateKeyWrapper(price_list): the insertion point to the *)
(* right of every element whose date is <= x.  a[mid] is price_list[mid][0], *)
(* zero-based.                                                               *)

RECURSIVE BisectLoop(_, _, _, _)
BisectLoop(price_list, x, lo, hi) ==
    IF lo < hi
    THEN LET mid == (lo + hi) \div 2
         IN IF x < price_list[mid + 1][1]
            THEN BisectLoop(price_list, x, lo, mid)
            ELSE BisectLoop(price_list, x, mid + 1, hi)
    ELSE lo

\* bisect_left in its place: the insertion point to the left of equal dates
RECURSIVE BisectLeftLoop(_, _, _, _)
BisectLeftLoop(price_list, x, lo, hi) ==
    IF lo < hi
    THEN LET mid == (lo + hi) \div 2
         IN IF price_list[mid + 1][1] < x
            THEN BisectLeftLoop(price_list, x, mid + 1, hi)
            ELSE BisectLeftLoop(price_list, x, lo, mid)
    ELSE lo

bisect_left(price_list, x) == BisectLeftLoop(price_list, x, 0, Len(price_list))

bisect(price_list, x) == BisectLoop(price_list, x, 0, Len(price_list))

-----------------------------------------------------------------------------
(* FavaPriceMap.get_price_point.  The result records, beside the returned  *)
(* point: raised (an exception left the call), depth (the number of nested *)
(* recursive calls), rec_kind (which case answered the recursive call) and *)
(* gets (the keys looked up in self._map, in order).                       *)

Returned(kind, point, gets) ==
    [point |-> point, raised |-> FALSE, kind |-> kind, depth |-> 0,
     rec_kind |-> "none", gets |-> gets]

\* IndexError, or RecursionError once the interpreter's limit is reached
Raised(kind, gets) ==
    [point |-> <<NoneDate, NoneRate>>, raised |-> TRUE, kind |-> kind,
     depth |-> 0, rec_kind |-> "none", gets |-> gets]

\* return self.get_price_point(...): the caller returns what the callee did
ReturnCall(r, gets) ==
    [r EXCEPT !.kind = "fallback", !.depth = r.depth + 1, !.rec_kind = r.kind,
              !.gets = gets \o r.gets]

\* price_list[-1]
LastOf(price_list) == price_list[Len(price_list)]

DirectCase(price_list, date, gets) ==
    IF date = NoneDate
    THEN IF price_list = <<>>
         THEN Raised("direct", gets)
         ELSE Returned("direct", LastOf(price_list), gets)
    ELSE LET idx == bisect(price_list, date)
         IN IF idx = 0
            THEN Returned("direct", <<NoneDate, NoneRate>>, gets)
            ELSE Returned("direct", price_list[idx], gets)

\* only the first leg tested
SkipCurrencyFirstLeg(price_list1, price_list2) == price_list1 = NoneList

\* if price_list1 is None or price_list2 is None: continue
SkipCurrency(price_list1, price_list2) ==
    price_list1 = NoneList \/ price_list2 = NoneList

RECURSIVE get_price_point(_, _, _, _, _)
RECURSIVE FallbackLoop(_, _, _, _, _, _, _)

\* the loop going on to the next currency when the first leg has no point
\* on or before the date
FallbackLoopTryNext(m, order, base_quote, date, fuel, i, gets) ==
    IF i > Len(order)
    THEN Returned("fallback", <<NoneDate, NoneRate>>, gets)
    ELSE
      LET currency == order[i]
          base == base_quote[1]
          quote == base_quote[2]
      IN IF currency = base \/ currency = quote
         THEN FallbackLoop(m, order, base_quote, date, fuel, i + 1, gets)
         ELSE
           LET price_list1 == DictGet(m, <<base, currency>>)
               price_list2 == DictGet(m, <<currency, quote>>)
               gets2 == gets \o << <<base, currency>>, <<currency, quote>> >>
           IN IF SkipCurrency(price_list1, price_list2)
              THEN FallbackLoop(m, order, base_quote, date, fuel, i + 1, gets2)
              ELSE IF date = NoneDate
              THEN LET date1 == LastOf(price_list1)[1]
                       date2 == LastOf(price_list2)[1]
                   IN IF date1 < date2
                      THEN ReturnCall(get_price_point(m, order,
                               <<currency, quote>>, date1, fuel - 1), gets2)
                      ELSE ReturnCall(get_price_point(m, order,
                               <<base, currency>>, date2, fuel - 1), gets2)
              ELSE LET idx == bisect(price_list1, date)
                   IN IF idx = 0
                      THEN FallbackLoop(m, order, base_quote, date, fuel,
                                        i + 1, gets2)
                      ELSE ReturnCall(get_price_point(m, order,
                               <<currency, quote>>, price_list1[idx][1],
                               fuel - 1), gets2)

\* for currency in self._currencies, from position i of the iteration
FallbackLoop(m, order, base_quote, date, fuel, i, gets) ==
    IF i > Len(order)
    THEN Returned("fallback", <<NoneDate, NoneRate>>, gets)
    ELSE
      LET currency == order[i]
          base == base_quote[1]
          quote == base_quote[2]
      IN IF currency = base \/ currency = quote
         THEN FallbackLoop(m, order, base_quote, date, fuel, i + 1, gets)
         ELSE
           LET price_list1 == DictGet(m, <<base, currency>>)
               price_list2 == DictGet(m, <<currency, quote>>)
               gets2 == gets \o << <<base, currency>>, <<currency, quote>> >>
           IN IF SkipCurrency(price_list1, price_list2)
              THEN FallbackLoop(m, order, base_quote, date, fuel, i + 1, gets2)
              ELSE IF date = NoneDate
              THEN IF price_list1 = <<>> \/ price_list2 = <<>>
                   THEN Raised("fallback", gets2)
                   ELSE
                     LET date1 == LastOf(price_list1)[1]
                         date2 == LastOf(price_list2)[1]
                     IN IF date1 < date2
                        THEN ReturnCall(get_price_point(m, order,
                                 <<currency, quote>>, date1, fuel - 1), gets2)
                        ELSE ReturnCall(get_price_point(m, order,
                                 <<base, currency>>, date2, fuel - 1), gets2)
              ELSE LET idx == bisect(price_list1, date)
                   IN IF idx = 0
                      THEN Returned("fallback", <<NoneDate, NoneRate>>, gets2)
                      ELSE ReturnCall(get_price_point(m, order,
                               <<currency, quote>>, price_list1[idx][1],
                               fuel - 1), gets2)

\* the stored series looked up before the test for base = quote
get_price_point_series_first(m, order, base_quote, date, fuel) ==
    IF fuel = 0
    THEN Raised("limit", <<>>)
    ELSE LET price_list == DictGet(m, base_quote)
         IN IF price_list # NoneList
            THEN DirectCase(price_list, date, <<base_quote>>)
            ELSE IF base_quote[1] = base_quote[2]
            THEN Returned("identity", <<NoneDate, ONE>>, <<>>)
            ELSE FallbackLoop(m, order, base_quote, date, fuel, 1,
                              <<base_quote>>)

get_price_point(m, order, base_quote, date, fuel) ==
    IF fuel = 0
    THEN Raised("limit", <<>>)
    ELSE IF base_quote[1] = base_quote[2]
    THEN Returned("identity", <<NoneDate, ONE>>, <<>>)
    ELSE LET price_list == DictGet(m, base_quote)
         IN IF price_list # NoneList
            THEN DirectCase(price_list, date, <<base_quote>>)
            ELSE FallbackLoop(m, order, base_quote, date, fuel, 1,
                              <<base_quote>>)

\* FavaPriceMap.get_price: get_price_point(...)[1]
get_price(m, order, base_quote, date) ==
    get_price_point(m, order, base_quote, date, RecursionLimit)

\* FavaPriceMap.get_all_prices
get_all_prices(m, base_quote) == DictGet(m, base_quote)

\* a defaultdict(list) read with d[k]: a missing key is inserted
DefaultDictAfterGet(d, k) ==
    IF k \in DOMAIN d THEN d
    ELSE [x \in DOMAIN d \cup {k} |-> IF x = k THEN <<>> ELSE d[x]]

\* dict.get leaves the dict as it is: a missing key is not inserted
DictAfterGet(d, k) == d

RECURSIVE DictAfterGets(_, _)
DictAfterGets(d, ks) ==
    IF ks = <<>> THEN d ELSE DictAfterGets(DictAfterGet(d, Head(ks)), Tail(ks))

-----------------------------------------------------------------------------
(* FavaPriceMap.commodity_pairs *)

\* tuple comparison of (base, quote) pairs
PairLess(a, b) == a[1] < b[1] \/ (a[1] = b[1] /\ a[2] < b[2])

RECURSIVE Insert(_, _)
Insert(x, s) ==
    IF s = <<>> THEN <<x>>
    ELSE IF PairLess(x, Head(s)) THEN <<x>> \o s
    ELSE <<Head(s)>> \o Insert(x, Tail(s))

RECURSIVE sorted(_)
sorted(s) == IF s = <<>> THEN <<>> ELSE Insert(Head(s), sorted(Tail(s)))

ExtraOperatingPairs(forward_pairs, operating_currencies) ==
    LET E[i \in 0..Len(forward_pairs)] ==
            IF i = 0 THEN <<>>
            ELSE LET base == forward_pairs[i][1]
                     quote == forward_pairs[i][2]
                 IN IF base \in operating_currencies
                       /\ quote \in operating_currencies
                    THEN Append(E[i - 1], <<quote, base>>)
                    ELSE E[i - 1]
    IN E[Len(forward_pairs)]

commodity_pairs(forward_pairs, operating_currencies) ==
    sorted(forward_pairs
           \o ExtraOperatingPairs(forward_pairs, operating_currencies))

-----------------------------------------------------------------------------
-----------------------------------------------------------------------------
(* The application: request contexts that load the ledgers on the first     *)
(* request and publish them in app.config["LEDGERS"].  FavaLedger lives in  *)
(* fava.core: its constructor and its changed() build a FavaPriceMap to     *)
(* completion and only then set the reference to it.                        *)

Requests == 1..NumRequests
Files == 1..NumFiles

\* the slug of a ledger: that of its title, which an edit of the file changes
NoSlug == <<0, 0>>
Slugs == Files \X (0..MaxVersion)

\* the price entries of version v of file f
FilePrices(f, v) ==
    [j \in 1..(v + 1) |->
        [date |-> j, currency |-> f,
         amount |-> [number |-> Dec(2, 1), currency |-> (f % NumCurrencies) + 1]]]

\* a FavaPriceMap at the start of __init__, about to iterate price_entries
NewPriceMap(entries) ==
    [input |-> entries, n |-> 0, raw_map |-> <<>>, counts |-> <<>>,
     _currencies |-> {}, _forward_pairs |-> <<>>, _map |-> <<>>,
     built |-> FALSE]

\* one iteration of __init__'s loop
PriceMapLoop(o) ==
    LET price == o.input[o.n + 1]
    IN [o EXCEPT !.n = o.n + 1,
                 !._currencies = @ \cup {price.currency, price.amount.currency},
                 !.raw_map = RawMapAfter(@, price),
                 !.counts = CounterIncr(@, <<price.currency,
                                             price.amount.currency>>)]

\* the end of __init__: the two comprehensions, and the constructor returns
PriceMapEnd(o) ==
    [o EXCEPT !._forward_pairs = ForwardPairsOf(o.counts),
              !._map = MapOf(o.raw_map),
              !.built = TRUE]

NoRequest ==
    [pc |-> "start", slug |-> NoSlug, ledgers |-> <<>>, i |-> 0, dict |-> 0,
     after |-> "none", file |-> 0, version |-> 0, map |-> 0, ledger |-> 0,
     observed |-> <<>>]

InitApp ==
    /\ LEDGERS = 0
    /\ LOAD_FILE_LOCK = 0
    /\ dict_objs = <<>>
    /\ ledger_objs = <<>>
    /\ map_objs = <<>>
    /\ files = [f \in Files |-> 0]
    /\ request = [t \in Requests |-> NoRequest]
    /\ loads = 0

\* ledger_slug(ledger)
ledger_slug(ledger) == <<ledger_objs[ledger].file, ledger_objs[ledger].version>>

\* next_key(slug, ledgers_by_slug): the slug itself, as no two ledgers here
\* share a slug
next_key(slug, d) == slug

DictKeys(d) == {d[i][1] : i \in 1..Len(d)}
DictValues(d) == [i \in 1..Len(d) |-> d[i][2]]
DictItem(d, k) == d[CHOOSE i \in 1..Len(d) : d[i][1] = k][2]

\* app.config.get("LEDGERS")
ConfigGet == IF LEDGERS = 0 THEN <<>> ELSE dict_objs[LEDGERS]

Set(t, r) == request' = [request EXCEPT ![t] = r]

\* g.beancount_file_slug = values.pop("bfile", None)
PullBeancountFile(t) ==
    /\ request[t].pc = "start"
    /\ \E slug \in Slugs \cup {NoSlug} :
          Set(t, [request[t] EXCEPT !.pc = "acquire", !.slug = slug])
    /\ UNCHANGED <<LEDGERS, LOAD_FILE_LOCK, dict_objs, ledger_objs, map_objs,
                   files, loads>>
    /\ UNCHANGED price_map

\* a lock that excludes nobody
LockAlwaysFree == TRUE

\* the lock can be taken when no request context holds it
LockFree == LOAD_FILE_LOCK = 0

\* with LOAD_FILE_LOCK:
Acquire(t) ==
    /\ request[t].pc = "acquire"
    /\ LockFree
    /\ LOAD_FILE_LOCK' = t
    /\ Set(t, [request[t] EXCEPT !.pc = "check"])
    /\ UNCHANGED <<LEDGERS, dict_objs, ledger_objs, map_objs, files, loads>>
    /\ UNCHANGED price_map

\* if not app.config.get("LEDGERS"): _load_file()
CheckLoaded(t) ==
    /\ request[t].pc = "check"
    /\ IF ConfigGet = <<>>
       THEN /\ Set(t, [request[t] EXCEPT !.pc = "load", !.ledgers = <<>>])
            /\ loads' = loads + 1
       ELSE /\ Set(t, [request[t] EXCEPT !.pc = "release"])
            /\ UNCHANGED loads
    /\ UNCHANGED <<LEDGERS, LOAD_FILE_LOCK, dict_objs, ledger_objs, map_objs,
                   files>>
    /\ UNCHANGED price_map

\* _load_file: FavaLedger(filepath) for the next of BEANCOUNT_FILES; the
\* ledger reads its file and starts to build its FavaPriceMap
LoadFile(t) ==
    /\ request[t].pc = "load"
    /\ Len(request[t].ledgers) < NumFiles
    /\ LET f == Len(request[t].ledgers) + 1
       IN /\ map_objs' = Append(map_objs, NewPriceMap(FilePrices(f, files[f])))
          /\ Set(t, [request[t] EXCEPT !.pc = "ctor", !.file = f,
                                       !.version = files[f],
                                       !.map = Len(map_objs) + 1])
    /\ UNCHANGED <<LEDGERS, LOAD_FILE_LOCK, dict_objs, ledger_objs, files,
                   loads>>
    /\ UNCHANGED price_map

\* FavaPriceMap.__init__, one price entry (in a constructor or in a reload)
BuildLoop(t) ==
    /\ request[t].pc \in {"ctor", "reload"}
    /\ map_objs[request[t].map].n < Len(map_objs[request[t].map].input)
    /\ map_objs' = [map_objs EXCEPT ![request[t].map] = PriceMapLoop(@)]
    /\ UNCHANGED <<LEDGERS, LOAD_FILE_LOCK, dict_objs, ledger_objs, files,
                   request, loads>>
    /\ UNCHANGED price_map

\* the FavaPriceMap is complete and FavaLedger(filepath) returns the ledger
LedgerBuilt(t) ==
    /\ request[t].pc = "ctor"
    /\ map_objs[request[t].map].n = Len(map_objs[request[t].map].input)
    /\ map_objs' = [map_objs EXCEPT ![request[t].map] = PriceMapEnd(@)]
    /\ ledger_objs' = Append(ledger_objs,
                             [file |-> request[t].file,
                              version |-> request[t].version,
                              prices |-> request[t].map])
    /\ Set(t, [request[t] EXCEPT !.pc = "load",
                      !.ledgers = Append(@, Len(ledger_objs) + 1)])
    /\ UNCHANGED <<LEDGERS, LOAD_FILE_LOCK, dict_objs, files, loads>>
    /\ UNCHANGED price_map

\* _load_file: update_ledger_slugs(ledgers), which starts with an empty dict
LoadedAll(t) ==
    /\ request[t].pc = "load"
    /\ Len(request[t].ledgers) = NumFiles
    /\ dict_objs' = Append(dict_objs, <<>>)
    /\ Set(t, [request[t] EXCEPT !.pc = "slugs", !.i = 0,
                                 !.dict = Len(dict_objs) + 1,
                                 !.after = "release"])
    /\ UNCHANGED <<LEDGERS, LOAD_FILE_LOCK, ledger_objs, map_objs, files,
                   loads>>
    /\ UNCHANGED price_map

\* update_ledger_slugs: one iteration of `for ledger in ledgers`
SlugLoop(t) ==
    /\ request[t].pc = "slugs"
    /\ request[t].i < Len(request[t].ledgers)
    /\ LET ledger == request[t].ledgers[request[t].i + 1]
           slug == ledger_slug(ledger)
           unique_key == next_key(slug, dict_objs[request[t].dict])
       IN dict_objs' = [dict_objs EXCEPT ![request[t].dict] =
                            Append(@, <<unique_key, ledger>>)]
    /\ Set(t, [request[t] EXCEPT !.i = @ + 1])
    /\ UNCHANGED <<LEDGERS, LOAD_FILE_LOCK, ledger_objs, map_objs, files,
                   loads>>
    /\ UNCHANGED price_map

\* update_ledger_slugs: app.config["LEDGERS"] = ledgers_by_slug
Publish(t) ==
    /\ request[t].pc = "slugs"
    /\ request[t].i = Len(request[t].ledgers)
    /\ LEDGERS' = request[t].dict
    /\ Set(t, [request[t] EXCEPT !.pc = request[t].after])
    /\ UNCHANGED <<LOAD_FILE_LOCK, dict_objs, ledger_objs, map_objs, files,
                   loads>>
    /\ UNCHANGED price_map

\* the end of `with LOAD_FILE_LOCK`
Release(t) ==
    /\ request[t].pc = "release"
    /\ LOAD_FILE_LOCK' = 0
    /\ Set(t, [request[t] EXCEPT !.pc = "lookup"])
    /\ UNCHANGED <<LEDGERS, dict_objs, ledger_objs, map_objs, files, loads>>
    /\ UNCHANGED price_map

\* if g.beancount_file_slug: if it is not in app.config["LEDGERS"]: abort(404)
\* unless it is the slug of a ledger, and then update the mapping
Lookup(t) ==
    /\ request[t].pc = "lookup"
    /\ LET d == ConfigGet
           values == DictValues(d)
       IN IF request[t].slug = NoSlug
          THEN /\ Set(t, [request[t] EXCEPT !.pc = "done"])
               /\ UNCHANGED dict_objs
          ELSE IF request[t].slug \in DictKeys(d)
          THEN /\ Set(t, [request[t] EXCEPT !.pc = "ledger"])
               /\ UNCHANGED dict_objs
          ELSE IF \A i \in 1..Len(values) :
                     request[t].slug # ledger_slug(values[i])
          THEN /\ Set(t, [request[t] EXCEPT !.pc = "done"])
               /\ UNCHANGED dict_objs
          ELSE /\ dict_objs' = Append(dict_objs, <<>>)
               /\ Set(t, [request[t] EXCEPT !.pc = "slugs", !.i = 0,
                                 !.ledgers = values,
                                 !.dict = Len(dict_objs) + 1,
                                 !.after = "ledger"])
    /\ UNCHANGED <<LEDGERS, LOAD_FILE_LOCK, ledger_objs, map_objs, files,
                   loads>>
    /\ UNCHANGED price_map

\* g.ledger = app.config["LEDGERS"][g.beancount_file_slug]; a KeyError ends
\* the request
GetLedger(t) ==
    /\ request[t].pc = "ledger"
    /\ IF request[t].slug \in DictKeys(ConfigGet)
       THEN Set(t, [request[t] EXCEPT !.pc = "filters",
                        !.ledger = DictItem(ConfigGet, request[t].slug)])
       ELSE Set(t, [request[t] EXCEPT !.pc = "done"])
    /\ UNCHANGED <<LEDGERS, LOAD_FILE_LOCK, dict_objs, ledger_objs, map_objs,
                   files, loads>>
    /\ UNCHANGED price_map

\* _perform_global_filters: ledger.changed(), which starts a reload when the
\* file on disk is not the one the ledger was loaded from
Changed(t) ==
    /\ request[t].pc = "filters"
    /\ LET l == ledger_objs[request[t].ledger]
       IN IF files[l.file] # l.version
          THEN /\ map_objs' = Append(map_objs,
                                NewPriceMap(FilePrices(l.file, files[l.file])))
               /\ Set(t, [request[t] EXCEPT !.pc = "reload",
                                 !.file = l.file, !.version = files[l.file],
                                 !.map = Len(map_objs) + 1])
          ELSE /\ Set(t, [request[t] EXCEPT !.pc = "query"])
               /\ UNCHANGED map_objs
    /\ UNCHANGED <<LEDGERS, LOAD_FILE_LOCK, dict_objs, ledger_objs, files,
                   loads>>
    /\ UNCHANGED price_map

\* the reload's FavaPriceMap is complete: the ledger's reference to its
\* price map is replaced
Reloaded(t) ==
    /\ request[t].pc = "reload"
    /\ map_objs[request[t].map].n = Len(map_objs[request[t].map].input)
    /\ map_objs' = [map_objs EXCEPT ![request[t].map] = PriceMapEnd(@)]
    /\ ledger_objs' = [ledger_objs EXCEPT ![request[t].ledger] =
                          [@ EXCEPT !.version = request[t].version,
                                    !.prices = request[t].map]]
    /\ Set(t, [request[t] EXCEPT !.pc = "query"])
    /\ UNCHANGED <<LEDGERS, LOAD_FILE_LOCK, dict_objs, files, loads>>
    /\ UNCHANGED price_map

\* the view queries g.ledger's price map, and the request ends
Query(t) ==
    /\ request[t].pc = "query"
    /\ Set(t, [request[t] EXCEPT !.pc = "done",
                  !.observed = <<map_objs[ledger_objs[request[t].ledger].prices]>>])
    /\ UNCHANGED <<LEDGERS, LOAD_FILE_LOCK, dict_objs, ledger_objs, map_objs,
                   files, loads>>
    /\ UNCHANGED price_map

\* a Beancount file is edited on disk
FileEdited ==
    /\ \E f \in Files :
        /\ files[f] < MaxVersion
        /\ files' = [files EXCEPT ![f] = @ + 1]
    /\ UNCHANGED <<LEDGERS, LOAD_FILE_LOCK, dict_objs, ledger_objs, map_objs,
                   request, loads>>
    /\ UNCHANGED price_map

NextApp ==
    \/ \E t \in Requests :
        \/ PullBeancountFile(t)
        \/ Acquire(t)
        \/ CheckLoaded(t)
        \/ LoadFile(t)
        \/ BuildLoop(t)
        \/ LedgerBuilt(t)
        \/ LoadedAll(t)
        \/ SlugLoop(t)
        \/ Publish(t)
        \/ Release(t)
        \/ Lookup(t)
        \/ GetLedger(t)
        \/ Changed(t)
        \/ Reloaded(t)
        \/ Query(t)
    \/ FileEdited

-----------------------------------------------------------------------------
(* The price index: construction and queries *)

NoCall == [op |-> "none", base_quote |-> <<1, 1>>, date |-> NoneDate,
           operating_currencies |-> {}]

NoRet == [point |-> <<NoneDate, NoneRate>>, price |-> NoneRate,
          prices |-> NoneList, pairs |-> <<>>, depth |-> 0,
          rec_kind |-> "none", raised |-> FALSE]

InitPrices ==
    /\ pc = "loop"
    /\ price_entries = <<>>
    /\ raw_map = <<>>
    /\ counts = <<>>
    /\ _currencies = {}
    /\ iter_order = <<>>
    /\ _forward_pairs = <<>>
    /\ _map = <<>>
    /\ call = NoCall
    /\ ret = NoRet

Init == InitPrices /\ InitApp

\* One iteration of the loop over price_entries (a list sorted by date), the
\* entry drawn from supplied, the input no longer than n.
LoopBodyOver(supplied, n) ==
    /\ pc = "loop"
    /\ Len(price_entries) < n
    /\ \E price \in supplied :
        /\ price.date >= LastDate
        /\ price_entries' = Append(price_entries, price)
        /\ _currencies' = _currencies \cup {price.currency, price.amount.currency}
        /\ raw_map' = RawMapAfter(raw_map, price)
        /\ counts' = CounterIncr(counts, <<price.currency, price.amount.currency>>)
    /\ UNCHANGED <<pc, iter_order, _forward_pairs, _map, call, ret>>
    /\ UNCHANGED app

LoopBodyUpTo(n) == LoopBodyOver(Prices, n)

LoopBody == LoopBodyUpTo(MaxEntries)

\* The loop is over: the two comprehensions, and the object is constructed.
LoopEnd ==
    /\ pc = "loop"
    /\ pc' = "built"
    /\ _forward_pairs' = ForwardPairsOf(counts)
    /\ _map' = MapOf(raw_map)
    /\ UNCHANGED <<price_entries, raw_map, counts, _currencies, iter_order,
                   call, ret>>
    /\ UNCHANGED app


\* a set has no order of its own: iterating it yields its elements in an
\* order that depends on the hashes of the strings
Perms(S) == {s \in [1..Cardinality(S) -> S] :
                \A i, j \in 1..Cardinality(S) : i # j => s[i] # s[j]}

\* the currencies that pass `if currency in base_quote: continue`
Candidates(order, base_quote) ==
    SelectSeq(order, LAMBDA c : c # base_quote[1] /\ c # base_quote[2])

\* the call reaches `for currency in self._currencies`
Iterates(m, base_quote) ==
    base_quote[1] # base_quote[2] /\ DictGet(m, base_quote) = NoneList

\* the orders the call's iteration of self._currencies can take (none is
\* drawn when the set is not iterated)
IterOrders(m, currencies, base_quote) ==
    IF Iterates(m, base_quote) THEN Perms(currencies) ELSE {<<>>}

QueryDates == Dates \cup {NoneDate}

\* a caller in a request context calls get_price_point(base_quote, date),
\* base_quote one of asked
GetPricePointOf(asked) ==
    /\ pc = "built"
    /\ \E base_quote \in asked, date \in QueryDates :
       \E order \in IterOrders(_map, _currencies, base_quote) :
        LET r == get_price_point(_map, order, base_quote, date, RecursionLimit)
        IN /\ iter_order' = IF r.kind = "fallback"
                             THEN Candidates(order, base_quote) ELSE <<>>
           /\ call' = [NoCall EXCEPT !.op = "get_price_point",
                                     !.base_quote = base_quote, !.date = date]
           /\ ret' = [NoRet EXCEPT !.point = r.point, !.depth = r.depth,
                                   !.rec_kind = r.rec_kind, !.raised = r.raised]
           /\ _map' = DictAfterGets(_map, r.gets)
    /\ pc' = "called"
    /\ UNCHANGED <<locals, _currencies, _forward_pairs>>
    /\ UNCHANGED app

GetPricePoint == GetPricePointOf(Pairs)

\* a caller calls get_price(base_quote, date)
GetPrice ==
    /\ pc = "built"
    /\ \E base_quote \in Pairs, date \in QueryDates :
       \E order \in IterOrders(_map, _currencies, base_quote) :
        LET r == get_price(_map, order, base_quote, date)
        IN /\ iter_order' = IF r.kind = "fallback"
                             THEN Candidates(order, base_quote) ELSE <<>>
           /\ call' = [NoCall EXCEPT !.op = "get_price",
                                     !.base_quote = base_quote, !.date = date]
           /\ ret' = [NoRet EXCEPT !.price = r.point[2], !.depth = r.depth,
                                   !.rec_kind = r.rec_kind, !.raised = r.raised]
           /\ _map' = DictAfterGets(_map, r.gets)
    /\ pc' = "called"
    /\ UNCHANGED <<locals, _currencies, _forward_pairs>>
    /\ UNCHANGED app

\* a caller calls get_all_prices(base_quote)
GetAllPrices ==
    /\ pc = "built"
    /\ \E base_quote \in Pairs :
        /\ call' = [NoCall EXCEPT !.op = "get_all_prices",
                                  !.base_quote = base_quote]
        /\ ret' = [NoRet EXCEPT !.prices = get_all_prices(_map, base_quote)]
        /\ _map' = DictAfterGet(_map, base_quote)
    /\ pc' = "called"
    /\ UNCHANGED <<locals, _currencies, iter_order, _forward_pairs>>
    /\ UNCHANGED app

\* a caller calls commodity_pairs(operating_currencies); the function only
\* tests membership in operating_currencies, so a set stands for the sequence
CommodityPairs ==
    /\ pc = "built"
    /\ \E operating_currencies \in SUBSET Currencies :
        /\ call' = [NoCall EXCEPT !.op = "commodity_pairs",
                        !.operating_currencies = operating_currencies]
        /\ ret' = [NoRet EXCEPT !.pairs =
                        commodity_pairs(_forward_pairs, operating_currencies)]
    /\ pc' = "called"
    /\ UNCHANGED <<locals, index>>
    /\ UNCHANGED app

\* the caller has used the result; the index is ready for the next query
Return ==
    /\ pc = "called"
    /\ pc' = "built"
    /\ call' = NoCall
    /\ ret' = NoRet
    /\ iter_order' = <<>>
    /\ UNCHANGED <<locals, _currencies, _forward_pairs, _map>>
    /\ UNCHANGED app

Next ==
    \/ LoopBody
    \/ LoopEnd
    \/ GetPricePoint
    \/ GetPrice
    \/ GetAllPrices
    \/ CommodityPairs
    \/ Return

Spec == Init /\ [][Next]_vars

LoopBodyListing == LoopBodyUpTo(MaxListingEntries)

NextListing ==
    \/ LoopBodyListing
    \/ LoopEnd
    \/ CommodityPairs
    \/ Return

SpecListing == Init /\ [][NextListing]_vars

SpecApp == Init /\ [][NextApp]_vars

\* Lookups of one pair that has no series of its own, over an index built
\* from observations of its legs through each of the other currencies.
PivotCurrencies == 1..NumPivotCurrencies
PivotPair == <<1, 2>>
PivotLegs == UNION {{<<PivotPair[1], c>>, <<c, PivotPair[2]>>} :
                       c \in PivotCurrencies \ {PivotPair[1], PivotPair[2]}}
\* a first leg is quoted at 2 and a second leg at 3, which tells their points
\* apart
PivotRate(leg) == IF leg[1] = PivotPair[1] THEN Dec(2, 1) ELSE Dec(3, 1)
PivotPrices == {[date |-> d, currency |-> leg[1],
                 amount |-> [number |-> PivotRate(leg), currency |-> leg[2]]] :
                   d \in Dates, leg \in PivotLegs}

LoopBodyPivot == LoopBodyOver(PivotPrices, MaxPivotEntries)

GetPricePointPivot == GetPricePointOf({PivotPair})

NextPivot ==
    \/ LoopBodyPivot
    \/ LoopEnd
    \/ GetPricePointPivot
    \/ Return

SpecPivot == Init /\ [][NextPivot]_vars

-----------------------------------------------------------------------------
(* What the claims speak of, stated over the input that was ingested *)

NoData == <<NoneDate, NoneRate>>

Base(e) == e.currency
Quote(e) == e.amount.currency
Rate(e) == e.amount.number

Entries == 1..Len(price_entries)

\* the genuine observations of a directed pair
Observations(A, B) ==
    {i \in Entries : Base(price_entries[i]) = A /\ Quote(price_entries[i]) = B}

ObservationCount(A, B) == Cardinality(Observations(A, B))

\* the points appended to the series of k, in input order: an observation of k
\* itself, then the inverse of a nonzero observation of the reverse pair
RECURSIVE AppendedTo(_, _)
AppendedTo(k, entries) ==
    IF entries = <<>> THEN <<>>
    ELSE LET e == entries[Len(entries)]
             before == AppendedTo(k, SubSeq(entries, 1, Len(entries) - 1))
             direct == IF <<Base(e), Quote(e)>> = k
                       THEN <<<<e.date, Rate(e)>>>> ELSE <<>>
             inverse == IF <<Quote(e), Base(e)>> = k /\ Rate(e) # ZERO
                        THEN <<<<e.date, DecDiv(ONE, Rate(e))>>>> ELSE <<>>
         IN before \o direct \o inverse

Called(op) == pc = "called" /\ call.op = op

-----------------------------------------------------------------------------
\* C2: a direct point lookup (base # quote, the pair has a stored series)
\* returns the series point with the greatest date <= the query date, NoData
\* when every point of the series is dated after it, and the last point of
\* the series when no date is given; it does not raise.
C2_DirectLookup ==
    (/\ Called("get_price_point")
     /\ call.base_quote[1] # call.base_quote[2]
     /\ call.base_quote \in DOMAIN _map)
    => LET s == _map[call.base_quote]
           d == call.date
           notAfter == {i \in 1..Len(s) : s[i][1] <= d}
       IN /\ ~ret.raised
          /\ d = NoneDate => ret.point = s[Len(s)]
          /\ (d # NoneDate /\ notAfter = {}) => ret.point = NoData
          /\ (d # NoneDate /\ notAfter # {}) =>
                \E i \in notAfter :
                    /\ \A j \in notAfter : s[j][1] <= s[i][1]
                    /\ ret.point = s[i]

\* a dated lookup that falls strictly between two points of a series, and
\* returns the earlier one
C2_Witness ==
    /\ Called("get_price_point")
    /\ call.base_quote[1] # call.base_quote[2]
    /\ call.base_quote \in DOMAIN _map
    /\ LET s == _map[call.base_quote]
       IN /\ Len(s) = 2
          /\ s[1][1] < call.date
          /\ call.date < s[2][1]
          /\ ret.point = s[1]

-----------------------------------------------------------------------------
\* the last point appended for date d to the series of k
LastAppended(k, d) ==
    LET a == AppendedTo(k, price_entries)
        at == {i \in 1..Len(a) : a[i][1] = d}
    IN a[CHOOSE i \in at : \A j \in at : j <= i]

AppendedDates(k) ==
    LET a == AppendedTo(k, price_entries) IN {a[i][1] : i \in 1..Len(a)}

\* C3: once the index is constructed from a date-ascending input, the stored
\* series are those of the pairs that had a point appended; each is non-empty,
\* has strictly increasing dates, holds exactly the dates appended to it, and
\* holds for each date the point appended last for that date in input order.
C3_SeriesInvariant ==
    pc = "built" =>
        /\ DOMAIN _map = {k \in Pairs : AppendedTo(k, price_entries) # <<>>}
        /\ \A k \in DOMAIN _map :
            LET s == _map[k]
            IN /\ Len(s) >= 1
               /\ \A i \in 1..(Len(s) - 1) : s[i][1] < s[i + 1][1]
               /\ {s[i][1] : i \in 1..Len(s)} = AppendedDates(k)
               /\ \A i \in 1..Len(s) : s[i] = LastAppended(k, s[i][1])

\* a series that mixes a direct observation and a synthetic inverse, of which
\* two same-day points were collapsed into the later one
C3_Witness ==
    /\ pc = "built"
    /\ \E k \in DOMAIN _map :
        /\ k[1] # k[2]
        /\ ObservationCount(k[1], k[2]) >= 1
        /\ ObservationCount(k[2], k[1]) >= 1
        /\ Len(AppendedTo(k, price_entries)) = 3
        /\ Len(_map[k]) = 2
        /\ \E i \in 1..2 : AppendedTo(k, price_entries)[i][1]
                            = AppendedTo(k, price_entries)[i + 1][1]
                           /\ AppendedTo(k, price_entries)[i][2]
                            # AppendedTo(k, price_entries)[i + 1][2]

-----------------------------------------------------------------------------
\* the observations of (A, B) dated d
ObservationsOn(A, B, d) == {i \in Observations(A, B) : price_entries[i].date = d}

Latest(S) == CHOOSE i \in S : \A j \in S : j <= i

\* The statement of C4 as the specification words it, for A # B: after a
\* dated lookup of (B, A) at d, where r # 0 is the last (A, B) rate ingested
\* for d, the result is (d, 1/r) if no direct (B, A) observation is dated d,
\* and otherwise (d, the direct observation's rate).
C4_DirectTakesPrecedence ==
    (Called("get_price_point") /\ call.date # NoneDate
     /\ call.base_quote[1] # call.base_quote[2]) =>
        LET B == call.base_quote[1]
            A == call.base_quote[2]
            d == call.date
            ab == ObservationsOn(A, B, d)
            ba == ObservationsOn(B, A, d)
        IN (ab # {} /\ Rate(price_entries[Latest(ab)]) # ZERO) =>
              IF ba = {}
              THEN ret.point = <<d, DecDiv(ONE, Rate(price_entries[Latest(ab)]))>>
              ELSE ret.point = <<d, Rate(price_entries[Latest(ba)])>>

\* C4 (amended): for A # B, after a dated lookup of (B, A) at d, if some
\* observation dated d fed the (B, A) series (a direct (B, A) observation, or
\* an (A, B) observation with a nonzero rate), the result is (d, v) with v
\* taken from the one of them ingested last: its rate if it is a direct
\* (B, A) observation, 1/r if it is an (A, B) observation of rate r.  And an
\* observation with rate 0 adds no point to the reverse series: a pair whose
\* only observations are zero-rate observations of its reverse has no series.
C4_InverseConsistency ==
    /\ (Called("get_price_point") /\ call.date # NoneDate
        /\ call.base_quote[1] # call.base_quote[2]) =>
          LET B == call.base_quote[1]
              A == call.base_quote[2]
              d == call.date
              ab == {i \in ObservationsOn(A, B, d) : Rate(price_entries[i]) # ZERO}
              ba == ObservationsOn(B, A, d)
          IN (ab \cup ba # {}) =>
                LET e == price_entries[Latest(ab \cup ba)]
                IN ret.point = <<d, IF Base(e) = B THEN Rate(e)
                                    ELSE DecDiv(ONE, Rate(e))>>
    /\ pc # "loop" =>
          \A A, B \in Currencies :
            (/\ A # B
             /\ Observations(B, A) = {}
             /\ \A i \in Observations(A, B) : Rate(price_entries[i]) = ZERO)
            => <<B, A>> \notin DOMAIN _map

\* a lookup of (B, A) on a date that has a direct (B, A) observation followed
\* by an (A, B) observation: the inverse of the later one is returned
C4_Witness ==
    /\ Called("get_price_point")
    /\ call.date # NoneDate
    /\ call.base_quote[1] # call.base_quote[2]
    /\ LET B == call.base_quote[1]
           A == call.base_quote[2]
           ab == ObservationsOn(A, B, call.date)
           ba == ObservationsOn(B, A, call.date)
       IN /\ ab # {} /\ ba # {}
          /\ Latest(ba) < Latest(ab)
          /\ Rate(price_entries[Latest(ab)]) # ZERO
          /\ ret.point = <<call.date,
                           DecDiv(ONE, Rate(price_entries[Latest(ab)]))>>
          /\ ret.point[2] # Rate(price_entries[Latest(ba)])

-----------------------------------------------------------------------------
\* C5: after commodity_pairs with no operating currencies, of two directions
\* (A, B) and (B, A), A # B, with equal nonzero counts of genuine
\* observations, exactly the one seen first in ingestion order is listed.
C5_TieBreakFirstSeen ==
    (Called("commodity_pairs") /\ call.operating_currencies = {}) =>
        \A A, B \in Currencies :
            (/\ A # B
             /\ ObservationCount(A, B) = ObservationCount(B, A)
             /\ ObservationCount(A, B) > 0
             /\ \A i \in Observations(A, B) : \E j \in Observations(B, A) : j < i)
            => /\ \E n \in 1..Len(ret.pairs) : ret.pairs[n] = <<B, A>>
               /\ \A n \in 1..Len(ret.pairs) : ret.pairs[n] # <<A, B>>

-----------------------------------------------------------------------------
\* the pairs with strictly more genuine observations than their reverse
Forward ==
    {k \in Pairs : ObservationCount(k[1], k[2]) > ObservationCount(k[2], k[1])}

\* C6: commodity_pairs(ops) returns, strictly ascending by (base, quote) (so
\* without duplicates), exactly the forward pairs and the reverse of every
\* forward pair whose two currencies are both in ops.
C6_CommodityPairs ==
    Called("commodity_pairs") =>
        LET ops == call.operating_currencies
            listed == {ret.pairs[n] : n \in 1..Len(ret.pairs)}
        IN /\ \A n \in 1..(Len(ret.pairs) - 1) :
                  \/ ret.pairs[n][1] < ret.pairs[n + 1][1]
                  \/ /\ ret.pairs[n][1] = ret.pairs[n + 1][1]
                     /\ ret.pairs[n][2] < ret.pairs[n + 1][2]
           /\ listed = Forward \cup {<<k[2], k[1]>> : k \in
                            {f \in Forward : f[1] \in ops /\ f[2] \in ops}}

\* (A, B) observed twice and (B, A) once, both operating currencies: both
\* directions are listed; the unsorted concatenation would be out of order
C6_Witness ==
    /\ Called("commodity_pairs")
    /\ \E A, B \in Currencies :
        /\ B < A
        /\ ObservationCount(A, B) = 2
        /\ ObservationCount(B, A) = 1
        /\ {A, B} \subseteq call.operating_currencies
        /\ ret.pairs = << <<B, A>>, <<A, B>> >>

-----------------------------------------------------------------------------
\* the first currency the iteration tried for which both legs have a series
TriedCurrency ==
    LET m == {i \in 1..Len(iter_order) :
                /\ <<call.base_quote[1], iter_order[i]>> \in DOMAIN _map
                /\ <<iter_order[i], call.base_quote[2]>> \in DOMAIN _map}
    IN IF m = {} THEN 0 ELSE iter_order[CHOOSE i \in m : \A j \in m : i <= j]

\* the date of the latest point of series k that is not after d (d given), or
\* of its last point (no date)
LatestDate(k, d) ==
    LET s == _map[k]
        notAfter == {s[i][1] : i \in {j \in 1..Len(s) : s[j][1] <= d}}
    IN IF d = NoneDate THEN s[Len(s)][1]
       ELSE IF notAfter = {} THEN NoneDate
       ELSE CHOOSE x \in notAfter : \A y \in notAfter : y <= x

\* the pivot date of the fallback: with a date, that of the latest (A, C)
\* point not after it; without, the earlier of the two legs' latest dates
Pivot(A, C, B, d) ==
    IF d # NoneDate THEN LatestDate(<<A, C>>, d)
    ELSE IF LatestDate(<<A, C>>, NoneDate) < LatestDate(<<C, B>>, NoneDate)
         THEN LatestDate(<<A, C>>, NoneDate)
         ELSE LatestDate(<<C, B>>, NoneDate)

\* C1: after get_price((A, B), d) where (A, B) has no series and the
\* currency C tried has series (A, C) and (C, B), with a pivot date at which
\* both legs have a price: the result is the product of the two legs' prices
\* at the pivot date.
C1_TriangulatedProduct ==
    (/\ Called("get_price")
     /\ call.base_quote[1] # call.base_quote[2]
     /\ call.base_quote \notin DOMAIN _map
     /\ TriedCurrency # 0)
    => LET A == call.base_quote[1]
           B == call.base_quote[2]
           C == TriedCurrency
           pivot == Pivot(A, C, B, call.date)
           leg1 == get_price(_map, iter_order, <<A, C>>, pivot).point[2]
           leg2 == get_price(_map, iter_order, <<C, B>>, pivot).point[2]
       IN (pivot # NoneDate /\ leg1 # NoneRate /\ leg2 # NoneRate)
             => ret.price = DecMul(leg1, leg2)

-----------------------------------------------------------------------------
\* some currency other than the two of the pair has a series on both legs
HasIntermediate(base, quote) ==
    \E C \in Currencies \ {base, quote} :
        <<base, C>> \in DOMAIN _map /\ <<C, quote>> \in DOMAIN _map

\* C7: get_price_point and get_price return without raising: the point is a
\* stored (date, rate), the identity (None, 1) or (None, None); a pair with
\* neither a series nor an intermediate currency, and a series whose points
\* are all after the date, give (None, None), and get_price gives None; the
\* fallback makes at most one recursive call and the direct case answers it.
C7_NoDataIsReturned ==
    (Called("get_price_point") \/ Called("get_price")) =>
        LET base == call.base_quote[1]
            quote == call.base_quote[2]
            k == call.base_quote
            result == IF call.op = "get_price" THEN ret.price ELSE ret.point[2]
        IN /\ ~ret.raised
           /\ ret.depth <= 1
           /\ ret.depth = 1 => ret.rec_kind = "direct"
           /\ call.op = "get_price_point" =>
                \/ ret.point = NoData
                \/ ret.point = <<NoneDate, ONE>> /\ base = quote
                \/ \E p \in DOMAIN _map : \E i \in 1..Len(_map[p]) :
                      ret.point = _map[p][i]
           /\ (base # quote /\ k \notin DOMAIN _map
               /\ ~HasIntermediate(base, quote)) => result = NoneRate
           /\ (base # quote /\ k \in DOMAIN _map /\ call.date # NoneDate
               /\ \A i \in 1..Len(_map[k]) : _map[k][i][1] > call.date)
                 => result = NoneRate

\* a lookup answered through an intermediate currency: one recursive call,
\* a point returned
C7_Witness ==
    /\ Called("get_price_point")
    /\ call.base_quote \notin DOMAIN _map
    /\ ret.depth = 1
    /\ ret.rec_kind = "direct"
    /\ ret.point # NoData
    /\ ~ret.raised

-----------------------------------------------------------------------------
\* the pairs that have a stored series, as the input determines them
Stored == {k \in Pairs : AppendedTo(k, price_entries) # <<>>}

\* C8: a query changes neither the series map, nor the forward pairs, nor
\* the currency universe; and get_all_prices of a pair without a stored
\* series returns None, whatever lookups went before.
C8_QueriesArePureReads ==
    [][/\ pc # "loop" =>
            /\ _map' = _map
            /\ _forward_pairs' = _forward_pairs
            /\ _currencies' = _currencies
       /\ (pc' = "called" /\ call'.op = "get_all_prices"
           /\ call'.base_quote \notin Stored) => ret'.prices = NoneList]_vars

\* a triangulated lookup has just returned a point for a pair, and the map
\* holds no series for that pair
C8_Witness ==
    /\ Called("get_price_point")
    /\ ret.depth = 1
    /\ ret.point # NoData
    /\ call.base_quote \notin DOMAIN _map
    /\ call.base_quote \notin Stored

-----------------------------------------------------------------------------
\* a price map whose construction ran to completion over its whole input
Complete(o) ==
    /\ o.built
    /\ o.n = Len(o.input)
    /\ DOMAIN o._map = {k \in Pairs : AppendedTo(k, o.input) # <<>>}
    /\ \A k \in DOMAIN o._map : o._map[k] # <<>>

\* C9: in every step of every interleaving of the request contexts: the
\* mapping that app.config["LEDGERS"] refers to holds every ledger, each with
\* a complete price map; every ledger's price map is complete; what a query
\* observed is a complete price map; the published mapping object and the
\* complete price maps are never changed afterwards (a new one replaces the
\* reference); and _load_file was called at most once.
C9_BuildThenPublish ==
    [][/\ LEDGERS' # 0 =>
            /\ Len(dict_objs'[LEDGERS']) = NumFiles
            /\ \A i \in 1..Len(dict_objs'[LEDGERS']) :
                  Complete(map_objs'[ledger_objs'[dict_objs'[LEDGERS'][i][2]].prices])
       /\ \A l \in 1..Len(ledger_objs') :
            Complete(map_objs'[ledger_objs'[l].prices])
       /\ \A t \in Requests :
            request'[t].observed # <<>> => Complete(request'[t].observed[1])
       /\ LEDGERS # 0 => dict_objs'[LEDGERS] = dict_objs[LEDGERS]
       /\ \A i \in 1..Len(map_objs) :
            map_objs[i].built => map_objs'[i] = map_objs[i]
       /\ loads' <= 1]_vars

\* a request context has queried a ledger's price map while another is
\* reloading that ledger, its new price map still unfinished; the ledgers
\* were loaded once and both request contexts went through the lock
C9_Witness ==
    /\ loads = 1
    /\ \E t1, t2 \in Requests :
        /\ request[t1].observed # <<>>
        /\ request[t2].pc = "reload"
        /\ request[t2].ledger = request[t1].ledger
        /\ ~map_objs[request[t2].map].built
        /\ map_objs[request[t2].map].n >= 1
        /\ request[t1].observed[1].input # map_objs[request[t2].map].input

-----------------------------------------------------------------------------
\* C10: get_price_point((X, X), date) returns (None, 1) for every currency
\* X, every date or none, whatever the index holds.
C10_Identity ==
    (Called("get_price_point") /\ call.base_quote[1] = call.base_quote[2])
        => ret.point = <<NoneDate, ONE>> /\ ~ret.raised

\* a dated identity lookup on an index that holds a series for (X, X) with a
\* point on that date
C10_Witness ==
    /\ Called("get_price_point")
    /\ call.base_quote[1] = call.base_quote[2]
    /\ call.date # NoneDate
    /\ call.base_quote \in DOMAIN _map
    /\ \E i \in 1..Len(_map[call.base_quote]) :
          _map[call.base_quote][i][1] = call.date
    /\ ret.point = <<NoneDate, ONE>>

-----------------------------------------------------------------------------
\* the last point of series k dated d or earlier, NoData if it has none
PointNotAfter(k, d) ==
    LET s == _map[k]
        notAfter == {i \in 1..Len(s) : s[i][1] <= d}
    IN IF notAfter = {} THEN NoData
       ELSE s[CHOOSE i \in notAfter : \A j \in notAfter : j <= i]

\* C11: after get_price_point((A, B), d) with A # B and no series for (A, B),
\* C the first currency in iteration order (not A, not B) with series (A, C)
\* and (C, B): without such a C the result is NoData.  With d given and pivot
\* the date of the latest (A, C) point not after d, the result is that of
\* get_price_point((C, B), pivot), the last (C, B) point not after the pivot;
\* it is NoData, no other currency tried, when (A, C) has no point not after
\* d; a returned date is not after d.  With no date and d1, d2 the latest
\* dates of (A, C) and (C, B), the result is that of
\* get_price_point((C, B), d1) if d1 < d2, of get_price_point((A, C), d2)
\* otherwise.
C11_FallbackPivot ==
    (/\ Called("get_price_point")
     /\ call.base_quote[1] # call.base_quote[2]
     /\ call.base_quote \notin DOMAIN _map)
    => LET A == call.base_quote[1]
           B == call.base_quote[2]
           C == TriedCurrency
           d == call.date
           recursed(k, date) ==
               get_price_point(_map, iter_order, k, date, RecursionLimit).point
       IN /\ ~ret.raised
          /\ C = 0 => ret.point = NoData /\ ret.depth = 0
          /\ (C # 0 /\ d # NoneDate) =>
                LET pivot == LatestDate(<<A, C>>, d)
                IN /\ pivot = NoneDate => ret.point = NoData /\ ret.depth = 0
                   /\ pivot # NoneDate =>
                        /\ ret.depth = 1
                        /\ ret.point = recursed(<<C, B>>, pivot)
                        /\ ret.point = PointNotAfter(<<C, B>>, pivot)
                   /\ ret.point # NoData => ret.point[1] <= d
          /\ (C # 0 /\ d = NoneDate) =>
                LET d1 == LatestDate(<<A, C>>, NoneDate)
                    d2 == LatestDate(<<C, B>>, NoneDate)
                IN /\ ret.depth = 1
                   /\ d1 < d2 =>
                        /\ ret.point = recursed(<<C, B>>, d1)
                        /\ ret.point = PointNotAfter(<<C, B>>, d1)
                   /\ ~(d1 < d2) =>
                        /\ ret.point = recursed(<<A, C>>, d2)
                        /\ ret.point = PointNotAfter(<<A, C>>, d2)

\* a dated lookup where two currencies have both legs: the first iterated
\* has no first-leg point on or before the date and NoData came back, though
\* the second would have led to a point
C11_Witness ==
    /\ Called("get_price_point")
    /\ call.base_quote \notin DOMAIN _map
    /\ call.date # NoneDate
    /\ Len(iter_order) = 2
    /\ TriedCurrency = iter_order[1]
    /\ LatestDate(<<call.base_quote[1], iter_order[1]>>, call.date) = NoneDate
    /\ ret.point = NoData
    /\ LET D == iter_order[2]
           pivot == LatestDate(<<call.base_quote[1], D>>, call.date)
       IN /\ <<call.base_quote[1], D>> \in DOMAIN _map
          /\ <<D, call.base_quote[2]>> \in DOMAIN _map
          /\ pivot # NoneDate
          /\ PointNotAfter(<<D, call.base_quote[2]>>, pivot) # NoData

=============================================================================
